---- MODULE Spec2Model ----
(***************************************************************************)
(* A model of ngpb4py's ApptainerExecutor (src/src/ngpb4py/apptainer.py):  *)
(* the argument router (sort_apptainer_kwargs, sort_ngpb_kwargs,           *)
(* validate_all_arguments), the command builder (build_command) and the    *)
(* execution coordinator (find_apptainer_binary,                           *)
(* validate_apptainer_availability, setup_logging, execute_command).       *)
(*                                                                         *)
(* Python str objects are TLA+ strings, handled character by character     *)
(* with Len, SubSeq and \o.  An optional value (None or a str) is a record *)
(* None or Some(s).  A dict is a sequence of [key, value] records with     *)
(* pairwise distinct keys, in insertion order.                             *)
(***************************************************************************)
EXTENDS Integers, Sequences, FiniteSets, TLC

----------------------------------------------------------------------------
(* Bounds of the model *)

\* longest keyword mapping handed to the sorters
MaxKw == 2
\* longest classified mapping handed directly to build_command
MaxArgs == 2
\* largest process count an executor is constructed with
MaxProc == 2
\* most calls made on one executor
MaxCalls == 2
\* the largest timeout, in seconds, handed to the constructor
MaxTimeout == 1
\* most executor instances alive at once
MaxInstances == 2
\* the largest exit status of the provisioning script
MaxReturncode == 127

----------------------------------------------------------------------------
(* Python values *)

None == [t |-> "none"]
Some(s) == [t |-> "str", v |-> s]
PyInt(n) == [t |-> "int", v |-> n]
PyBool(b) == [t |-> "bool", v |-> b]

\* bool(x) of an optional str: None and "" are falsy
Truthy(o) == o.t = "str" /\ o.v # ""

Digit(d) == SubSeq("0123456789", d + 1, d + 1)

RECURSIVE NatToStr(_)
NatToStr(n) == IF n < 10 THEN Digit(n) ELSE NatToStr(n \div 10) \o Digit(n % 10)

\* str(n) of an int
IntToStr(n) == IF n < 0 THEN "-" \o NatToStr(0 - n) ELSE NatToStr(n)

\* str(value) of a primitive that is not None
PyStr(val) ==
  CASE val.t = "str" -> val.v
    [] val.t = "int" -> IntToStr(val.v)
    [] val.t = "bool" -> IF val.v THEN "True" ELSE "False"

\* the expression  str(value) if value is not None else None
StrOrNone(val) == IF val.t = "none" THEN None ELSE Some(PyStr(val))

\* str.startswith
startswith(s, p) == Len(s) >= Len(p) /\ SubSeq(s, 1, Len(p)) = p

\* str.replace(old, ""): every non-overlapping occurrence of old, scanning
\* from the left, is removed
RECURSIVE replace(_, _)
replace(s, old) ==
  IF Len(s) = 0 THEN ""
  ELSE IF startswith(s, old) THEN replace(SubSeq(s, Len(old) + 1, Len(s)), old)
  ELSE SubSeq(s, 1, 1) \o replace(SubSeq(s, 2, Len(s)), old)

----------------------------------------------------------------------------
(* Python dicts *)

Keys(d) == {d[i].key : i \in 1..Len(d)}

HasKey(d, k) == \E i \in 1..Len(d) : d[i].key = k

\* d[k] for a key that is present
Get(d, k) == d[CHOOSE i \in 1..Len(d) : d[i].key = k].value

\* d[k] = v: an existing key keeps its position, a new key goes last
DictSet(d, k, v) ==
  IF HasKey(d, k)
  THEN [i \in 1..Len(d) |-> IF d[i].key = k THEN [key |-> k, value |-> v] ELSE d[i]]
  ELSE Append(d, [key |-> k, value |-> v])

\* the dicts of length at most n with keys in K and values in V
DictsOver(K, V, n) ==
  {d \in UNION {[1..m -> [key : K, value : V]] : m \in 0..n} :
     \A i, j \in 1..Len(d) : d[i].key = d[j].key => i = j}

----------------------------------------------------------------------------
(* Class constants *)

APPTAINER_KNOWN_ARGS ==
  {"build-config", "config", "debug", "help", "nocolor", "quiet", "silent",
   "verbose", "version",
   "add-caps", "allow-setuid", "app", "apply-cgroups", "bind", "blkio-weight",
   "blkio-weight-device", "boot", "cleanenv", "compat", "contain",
   "containall", "cpu-shares", "cpus", "cpuset-cpus", "cpuset-mems", "device",
   "device-cgroup-rule", "disable-cache", "dns", "docker-login", "drop-caps",
   "env", "env-file", "fakeroot", "fusemount", "home", "hostname", "ipc",
   "keep-privs", "memory", "memory-reservation", "memory-swap", "mount",
   "net", "network", "network-args", "no-eval", "no-home", "no-https",
   "no-init", "no-mount", "no-privs", "no-umask", "nv", "oci", "overlay",
   "passwd", "pem-path", "pid", "pids-limit", "pwd", "rocm", "scratch",
   "security", "shell", "sif-fuse", "tmp", "tmpfs", "underlay", "unsquash",
   "user", "userns", "uts", "vm", "vm-cpu", "vm-err", "vm-ip", "vm-ram",
   "workdir", "writable", "writable-tmpfs"}

NGPB_KNOWN_ARGS == {"prmfile", "pqrfile", "run_log"}

APPTAINER_PREFIX == "apptainer_"

NGPB_PREFIX == "ngpb_"

----------------------------------------------------------------------------
(* Argument router *)

\* clean_key = key.replace("apptainer_", "")
apptainer_clean_key(key) == replace(key, APPTAINER_PREFIX)

\* clean_key = key.replace("ngpb_", "")
ngpb_clean_key(key) == replace(key, NGPB_PREFIX)

\* sort_apptainer_step whose last branch reports the name instead of passing
\* it over: every name that is not a runtime option is listed as unknown
sort_apptainer_step_reports_rest(acc, key, value) ==
  IF key \in APPTAINER_KNOWN_ARGS
  THEN [args |-> DictSet(acc.args, key, StrOrNone(value)), unknown |-> acc.unknown]
  ELSE IF startswith(key, APPTAINER_PREFIX)
  THEN IF apptainer_clean_key(key) \in APPTAINER_KNOWN_ARGS
       THEN [args |-> DictSet(acc.args, apptainer_clean_key(key), StrOrNone(value)),
             unknown |-> acc.unknown]
       ELSE [args |-> acc.args, unknown |-> Append(acc.unknown, key)]
  ELSE [args |-> acc.args, unknown |-> Append(acc.unknown, key)]

\* one iteration of the loop of sort_apptainer_kwargs over (key, value)
sort_apptainer_step(acc, key, value) ==
  IF key \in APPTAINER_KNOWN_ARGS
  THEN [args |-> DictSet(acc.args, key, StrOrNone(value)), unknown |-> acc.unknown]
  ELSE IF startswith(key, APPTAINER_PREFIX)
  THEN IF apptainer_clean_key(key) \in APPTAINER_KNOWN_ARGS
       THEN [args |-> DictSet(acc.args, apptainer_clean_key(key), StrOrNone(value)),
             unknown |-> acc.unknown]
       ELSE [args |-> acc.args, unknown |-> Append(acc.unknown, key)]
  ELSE acc

RECURSIVE sort_apptainer_loop(_, _, _)
sort_apptainer_loop(acc, kwargs, i) ==
  IF i > Len(kwargs) THEN acc
  ELSE sort_apptainer_loop(sort_apptainer_step(acc, kwargs[i].key, kwargs[i].value),
                           kwargs, i + 1)

\* returns (apptainer_args, unknown_args)
sort_apptainer_kwargs(kwargs) ==
  sort_apptainer_loop([args |-> <<>>, unknown |-> <<>>], kwargs, 1)

\* sort_ngpb_step as a copy of the runtime sorter's loop body that kept
\* testing the runtime allow-list and prefix
sort_ngpb_step_copied(acc, key, value) == sort_apptainer_step(acc, key, value)

\* sort_ngpb_step whose last branch is a plain else: every name that is not
\* a program option is reported, runtime options included
sort_ngpb_step_unfiltered(acc, key, value) ==
  IF key \in NGPB_KNOWN_ARGS
  THEN [args |-> DictSet(acc.args, key, StrOrNone(value)), unknown |-> acc.unknown]
  ELSE IF startswith(key, NGPB_PREFIX)
  THEN IF ngpb_clean_key(key) \in NGPB_KNOWN_ARGS
       THEN [args |-> DictSet(acc.args, ngpb_clean_key(key), StrOrNone(value)),
             unknown |-> acc.unknown]
       ELSE [args |-> acc.args, unknown |-> Append(acc.unknown, key)]
  ELSE [args |-> acc.args, unknown |-> Append(acc.unknown, key)]

\* one iteration of the loop of sort_ngpb_kwargs over (key, value)
sort_ngpb_step(acc, key, value) ==
  IF key \in NGPB_KNOWN_ARGS
  THEN [args |-> DictSet(acc.args, key, StrOrNone(value)), unknown |-> acc.unknown]
  ELSE IF startswith(key, NGPB_PREFIX)
  THEN IF ngpb_clean_key(key) \in NGPB_KNOWN_ARGS
       THEN [args |-> DictSet(acc.args, ngpb_clean_key(key), StrOrNone(value)),
             unknown |-> acc.unknown]
       ELSE [args |-> acc.args, unknown |-> Append(acc.unknown, key)]
  ELSE IF key \notin APPTAINER_KNOWN_ARGS /\ ~startswith(key, APPTAINER_PREFIX)
  THEN [args |-> acc.args, unknown |-> Append(acc.unknown, key)]
  ELSE acc

RECURSIVE sort_ngpb_loop(_, _, _)
sort_ngpb_loop(acc, kwargs, i) ==
  IF i > Len(kwargs) THEN acc
  ELSE sort_ngpb_loop(sort_ngpb_step(acc, kwargs[i].key, kwargs[i].value),
                      kwargs, i + 1)

\* returns (ngpb_args, unknown_args)
sort_ngpb_kwargs(kwargs) ==
  sort_ngpb_loop([args |-> <<>>, unknown |-> <<>>], kwargs, 1)

----------------------------------------------------------------------------
(* Diagnostics, exceptions and results *)

\* one record emitted through self.logger
Diag(level, msg, info) == [level |-> level, msg |-> msg, info |-> info]

\* an exception object: its Python class, the message template, its details
Exc(class, kind, info) == [class |-> class, kind |-> kind, info |-> info]

NoInfo == [none |-> TRUE]

Return(value) == [t |-> "return", value |-> value]

Raise(exc) == [t |-> "raise", exc |-> exc]

\* the classes caught by  except Exception
IsException(exc) ==
  exc.class \in {"RuntimeError", "TimeoutExpired", "OSError", "FileNotFoundError",
                 "PermissionError", "ValueError"}

----------------------------------------------------------------------------
(* Paths *)

\* the process's current directory, os.getcwd()
CWD == "/home/user"

\* Path.absolute(): a relative path is joined to the current directory,
\* nothing is normalised
PathAbsolute(p) ==
  IF startswith(p, "/") THEN p
  ELSE IF p = "." THEN CWD
  ELSE CWD \o "/" \o p

\* Path / name
PathJoin(p, name) ==
  IF p = "." THEN name
  ELSE IF p = "/" THEN "/" \o name
  ELSE p \o "/" \o name

----------------------------------------------------------------------------
(* Command builder *)

\* option_tokens testing the value's truth instead of  value is None
option_tokens_truthy(key, value) ==
  IF ~Truthy(value) THEN <<"--" \o key>> ELSE <<"--" \o key, value.v>>

\* the body of the two rendering loops of build_command for one (key, value)
option_tokens(key, value) ==
  IF value = None THEN <<"--" \o key>> ELSE <<"--" \o key, value.v>>

RECURSIVE render_options(_, _)
render_options(args, i) ==
  IF i > Len(args) THEN <<>>
  ELSE option_tokens(args[i].key, args[i].value) \o render_options(args, i + 1)

build_command(self, apptainer_args, ngpb_args) ==
  IF ~Truthy(self.apptainer_path)
  THEN Raise(Exc("RuntimeError", "binary_unresolved", NoInfo))
  ELSE Return(<<self.apptainer_path.v, "exec">>
              \o <<"--pwd", "/App">>
              \o <<"--bind", PathAbsolute(self.workdir) \o ":/App">>
              \o render_options(apptainer_args, 1)
              \o <<PathAbsolute(self.sif_path)>>
              \o <<"mpirun", "-np", IntToStr(self.n_proc)>>
              \o <<"ngpb">>
              \o render_options(ngpb_args, 1))

----------------------------------------------------------------------------
(* Argument validation *)

\* handle_apptainer_kwargs_errors: the diagnostics it emits
handle_apptainer_kwargs_errors(unknown_args) ==
  IF unknown_args # <<>>
  THEN <<Diag("warning", "unknown_apptainer_arguments", [args |-> unknown_args])>>
  ELSE <<>>

\* the list comprehension of validate_all_arguments
truly_unknown(unknown_ngpb) ==
  SelectSeq(unknown_ngpb,
            LAMBDA arg : arg \notin APPTAINER_KNOWN_ARGS
                         /\ ~startswith(arg, APPTAINER_PREFIX))

\* validate_all_arguments: the diagnostics it emits and the lines it appends
\* to argument_warnings.log; write_ok tells whether the append succeeds
validate_all_arguments(kwargs, write_ok) ==
  LET unknown_apptainer == sort_apptainer_kwargs(kwargs).unknown
      unknown_ngpb == sort_ngpb_kwargs(kwargs).unknown
      d1 == handle_apptainer_kwargs_errors(unknown_apptainer)
      tu == truly_unknown(unknown_ngpb)
  IN  IF unknown_ngpb # <<>> /\ tu # <<>>
      THEN IF write_ok
           THEN [diags |-> d1 \o <<Diag("warning", "unknown_arguments", [args |-> tu])>>,
                 appended |-> <<tu>>]
           ELSE [diags |-> d1 \o <<Diag("warning", "unknown_arguments", [args |-> tu]),
                                   Diag("error", "warnings_log_write_failed", NoInfo)>>,
                 appended |-> <<>>]
      ELSE [diags |-> d1, appended |-> <<>>]

----------------------------------------------------------------------------
(* Execution coordinator: binary resolution and availability validation *)

\* The outcomes of one shutil.which(name): a path, None, or an error
WhichOutcomes(path) == {[t |-> "found", v |-> path], [t |-> "none"], [t |-> "raise"]}

APPTAINER_BIN == "/usr/bin/apptainer"

SINGULARITY_BIN == "/usr/bin/singularity"

\* The outcomes of  subprocess.run([apptainer_path, "--version"], timeout=10)
VersionOutcomes ==
  {[t |-> "exit", returncode |-> 0, stdout |-> "apptainer version 1.2.3", stderr |-> ""],
   [t |-> "exit", returncode |-> 1, stdout |-> "", stderr |-> "error"],
   [t |-> "timeout"],
   [t |-> "oserror"]}

\* one call of shutil.which and what it answered
Lookup(name, res) == [name |-> name, res |-> res]

\* find_apptainer_binary looking for "singularity" before "apptainer"
find_apptainer_binary_fallback_first(self, wa, ws) ==
  IF ws.t = "raise"
  THEN [self |-> self, out |-> Return(None), lookups |-> <<Lookup("singularity", ws)>>,
        diags |-> <<Diag("error", "search_error", NoInfo)>>]
  ELSE IF ws.t = "found"
  THEN [self |-> [self EXCEPT !.apptainer_path = Some(ws.v)], out |-> Return(Some(ws.v)),
        lookups |-> <<Lookup("singularity", ws)>>,
        diags |-> <<Diag("warning", "singularity_fallback", NoInfo)>>]
  ELSE IF wa.t = "raise"
  THEN [self |-> self, out |-> Return(None),
        lookups |-> <<Lookup("singularity", ws), Lookup("apptainer", wa)>>,
        diags |-> <<Diag("error", "search_error", NoInfo)>>]
  ELSE IF wa.t = "found"
  THEN [self |-> [self EXCEPT !.apptainer_path = Some(wa.v)], out |-> Return(Some(wa.v)),
        lookups |-> <<Lookup("singularity", ws), Lookup("apptainer", wa)>>,
        diags |-> <<Diag("info", "found_apptainer", [path |-> wa.v])>>]
  ELSE [self |-> self, out |-> Return(None),
        lookups |-> <<Lookup("singularity", ws), Lookup("apptainer", wa)>>,
        diags |-> <<>>]

\* find_apptainer_binary without its try/except: an error of the lookup
\* leaves the method as raised
find_apptainer_binary_uncaught(self, wa, ws) ==
  IF wa.t = "raise"
  THEN [self |-> self, out |-> Raise(Exc("OSError", "oserror", NoInfo)),
        lookups |-> <<Lookup("apptainer", wa)>>, diags |-> <<>>]
  ELSE IF wa.t = "found"
  THEN [self |-> [self EXCEPT !.apptainer_path = Some(wa.v)], out |-> Return(Some(wa.v)),
        lookups |-> <<Lookup("apptainer", wa)>>,
        diags |-> <<Diag("info", "found_apptainer", [path |-> wa.v])>>]
  ELSE IF ws.t = "raise"
  THEN [self |-> self, out |-> Raise(Exc("OSError", "oserror", NoInfo)),
        lookups |-> <<Lookup("apptainer", wa), Lookup("singularity", ws)>>,
        diags |-> <<>>]
  ELSE IF ws.t = "found"
  THEN [self |-> [self EXCEPT !.apptainer_path = Some(ws.v)], out |-> Return(Some(ws.v)),
        lookups |-> <<Lookup("apptainer", wa), Lookup("singularity", ws)>>,
        diags |-> <<Diag("warning", "singularity_fallback", NoInfo)>>]
  ELSE [self |-> self, out |-> Return(None),
        lookups |-> <<Lookup("apptainer", wa), Lookup("singularity", ws)>>,
        diags |-> <<>>]

\* find_apptainer_binary with the search path answering wa for "apptainer"
\* and ws for "singularity": the executor afterwards, the outcome, the
\* diagnostics emitted and the lookups made
find_apptainer_binary(self, wa, ws) ==
  IF wa.t = "raise"
  THEN [self |-> self, out |-> Return(None), lookups |-> <<Lookup("apptainer", wa)>>,
        diags |-> <<Diag("error", "search_error", NoInfo)>>]
  ELSE IF wa.t = "found"
  THEN [self |-> [self EXCEPT !.apptainer_path = Some(wa.v)], out |-> Return(Some(wa.v)),
        lookups |-> <<Lookup("apptainer", wa)>>,
        diags |-> <<Diag("info", "found_apptainer", [path |-> wa.v])>>]
  ELSE IF ws.t = "raise"
  THEN [self |-> self, out |-> Return(None),
        lookups |-> <<Lookup("apptainer", wa), Lookup("singularity", ws)>>,
        diags |-> <<Diag("error", "search_error", NoInfo)>>]
  ELSE IF ws.t = "found"
  THEN [self |-> [self EXCEPT !.apptainer_path = Some(ws.v)], out |-> Return(Some(ws.v)),
        lookups |-> <<Lookup("apptainer", wa), Lookup("singularity", ws)>>,
        diags |-> <<Diag("warning", "singularity_fallback", NoInfo)>>]
  ELSE [self |-> self, out |-> Return(None),
        lookups |-> <<Lookup("apptainer", wa), Lookup("singularity", ws)>>,
        diags |-> <<>>]

\* the try block of validate_apptainer_availability for a version query
\* ending as vq: what the block does before any except clause runs
version_check_body(path, vq) ==
  IF vq.t = "timeout"
  THEN [out |-> Raise(Exc("TimeoutExpired", "timeout_expired", NoInfo)), diags |-> <<>>]
  ELSE IF vq.t = "oserror"
  THEN [out |-> Raise(Exc("OSError", "oserror", NoInfo)), diags |-> <<>>]
  ELSE IF vq.returncode # 0
  THEN [out |-> Raise(Exc("RuntimeError", "not_functional",
                          [path |-> path, returncode |-> vq.returncode,
                           stderr |-> vq.stderr])),
        diags |-> <<Diag("error", "not_functional",
                         [path |-> path, returncode |-> vq.returncode,
                          stderr |-> vq.stderr])>>]
  ELSE [out |-> Return(None),
        diags |-> <<Diag("info", "version_check_successful", [stdout |-> vq.stdout])>>]

\* the except clauses of validate_apptainer_availability, in order
version_check_handlers(path, body) ==
  IF body.out.t = "return" THEN body
  ELSE IF body.out.exc.class = "TimeoutExpired"
  THEN [out |-> Raise(Exc("RuntimeError", "version_check_timeout", [path |-> path])),
        diags |-> body.diags \o <<Diag("error", "version_check_timeout", [path |-> path])>>]
  ELSE IF IsException(body.out.exc)
  THEN [out |-> Raise(Exc("RuntimeError", "functionality_error", [cause |-> body.out.exc])),
        diags |-> body.diags
                  \o <<Diag("error", "functionality_error", [cause |-> body.out.exc])>>]
  ELSE body

\* the subprocess run made by the version query
VersionRun(path, vq) ==
  [argv |-> <<path, "--version">>, timeout |-> PyInt(10), shell |-> FALSE,
   outcome |-> vq]

\* validate_apptainer_availability without its second  if not self.apptainer_path:
\* an unresolved executor goes on to query the bare name "apptainer"
validate_apptainer_availability_unchecked(self, wa, ws, vq) ==
  LET f == IF ~Truthy(self.apptainer_path)
           THEN find_apptainer_binary(self, wa, ws)
           ELSE [self |-> self, out |-> Return(None), lookups |-> <<>>, diags |-> <<>>]
      path == IF Truthy(f.self.apptainer_path) THEN f.self.apptainer_path.v ELSE "apptainer"
      r == version_check_handlers(path, version_check_body(path, vq))
  IN  [self |-> f.self, out |-> r.out, diags |-> f.diags \o r.diags,
       lookups |-> f.lookups, runs |-> <<VersionRun(path, vq)>>]

\* validate_apptainer_availability trusting a binary resolved by an earlier
\* call: the version query is run only by the call that resolves the binary
validate_apptainer_availability_cached(self, wa, ws, vq) ==
  IF Truthy(self.apptainer_path)
  THEN [self |-> self, out |-> Return(None), diags |-> <<>>, lookups |-> <<>>,
        runs |-> <<>>]
  ELSE LET f == find_apptainer_binary(self, wa, ws)
           s1 == f.self
       IN  IF ~Truthy(s1.apptainer_path)
           THEN [self |-> s1,
                 out |-> Raise(Exc("RuntimeError", "apptainer_not_found", NoInfo)),
                 diags |-> f.diags \o <<Diag("error", "apptainer_not_found", NoInfo)>>,
                 lookups |-> f.lookups, runs |-> <<>>]
           ELSE LET r == version_check_handlers(s1.apptainer_path.v,
                           version_check_body(s1.apptainer_path.v, vq))
                IN  [self |-> s1, out |-> r.out, diags |-> f.diags \o r.diags,
                     lookups |-> f.lookups,
                     runs |-> <<VersionRun(s1.apptainer_path.v, vq)>>]

\* validate_apptainer_availability: the executor afterwards, the outcome
\* (return or raise), the diagnostics, the lookups and the subprocess runs made
validate_apptainer_availability(self, wa, ws, vq) ==
  LET f == IF ~Truthy(self.apptainer_path)
           THEN find_apptainer_binary(self, wa, ws)
           ELSE [self |-> self, out |-> Return(None), lookups |-> <<>>, diags |-> <<>>]
      s1 == f.self
  IN  IF f.out.t = "raise"
      THEN [self |-> s1, out |-> f.out, diags |-> f.diags, lookups |-> f.lookups,
            runs |-> <<>>]
      ELSE IF ~Truthy(s1.apptainer_path)
      THEN [self |-> s1,
            out |-> Raise(Exc("RuntimeError", "apptainer_not_found", NoInfo)),
            diags |-> f.diags \o <<Diag("error", "apptainer_not_found", NoInfo)>>,
            lookups |-> f.lookups, runs |-> <<>>]
      ELSE LET r == version_check_handlers(s1.apptainer_path.v,
                      version_check_body(s1.apptainer_path.v, vq))
           IN  [self |-> s1, out |-> r.out, diags |-> f.diags \o r.diags,
                lookups |-> f.lookups, runs |-> <<VersionRun(s1.apptainer_path.v, vq)>>]

----------------------------------------------------------------------------
(* Execution coordinator: logs and execution *)

LOG_FILENAME == "apptainer_execution.log"

\* setup_logging: the two log paths, or the error of creating the secondary
\* log directory; mkdir_ok tells whether that mkdir succeeds
setup_logging(self, fs, log_filename, mkdir_ok) ==
  IF self.log_copy_dir # None
  THEN IF mkdir_ok
       THEN [out |-> Return([primary_log |-> PathJoin(self.workdir, log_filename),
                             copy_log |-> Some(PathJoin(self.log_copy_dir.v, log_filename))]),
             fs |-> [fs EXCEPT !.copy_dir = TRUE]]
       ELSE [out |-> Raise(Exc("OSError", "mkdir_failed", NoInfo)), fs |-> fs]
  ELSE [out |-> Return([primary_log |-> PathJoin(self.workdir, log_filename),
                        copy_log |-> None]),
        fs |-> fs]

\* " ".join(cmd)
RECURSIVE join(_, _)
join(cmd, i) ==
  IF i > Len(cmd) THEN ""
  ELSE IF i = Len(cmd) THEN cmd[i]
  ELSE cmd[i] \o " " \o join(cmd, i + 1)

RECURSIVE update(_, _, _)
\* d.update(other)
update(d, other, i) ==
  IF i > Len(other) THEN d
  ELSE update(DictSet(d, other[i].key, other[i].value), other, i + 1)

\* the environment of the spawned command with the inherited value kept
\* where a key is in both mappings
exec_env_inherited_wins(environ, self) == update(self.env, environ, 1)

\* exec_env = os.environ.copy(); exec_env.update(self.env)
exec_env(environ, self) == update(environ, self.env, 1)

\* The outcomes of the subprocess.run of the built command: an exit status
\* with both streams, an OS-level failure, or (with a timeout) a timeout
RunOutcomes(timeout) ==
  {[t |-> "exit", returncode |-> 0, stdout |-> "done", stderr |-> ""],
   [t |-> "exit", returncode |-> 1, stdout |-> "", stderr |-> "boom"],
   [t |-> "oserror"]}
  \cup (IF timeout # None THEN {[t |-> "timeout"]} ELSE {})

\* the subprocess run of the built command
CommandRun(self, environ, cmd, run) ==
  [argv |-> cmd, timeout |-> self.timeout, shell |-> FALSE,
   env |-> exec_env(environ, self), cwd |-> self.workdir, outcome |-> run]

\* log_content
log_content(cmd, run) ==
  [command |-> join(cmd, 1), returncode |-> run.returncode,
   stdout |-> run.stdout, stderr |-> run.stderr]

\* with open(path, "w") as f: f.write(content), inside its try/except
write_log(old, content, path, ok) ==
  IF ok
  THEN [file |-> Some(content), diags |-> <<>>]
  ELSE [file |-> old, diags |-> <<Diag("error", "logging_error", [path |-> path])>>]

\* the try block of execute_command writing a log record for a command that
\* timed out before it raises
execute_body_logged_timeout(self, fs, environ, cmd, logs, e) ==
  IF e.run.t = "timeout"
  THEN [out |-> Raise(Exc("TimeoutExpired", "timeout_expired", NoInfo)),
        fs |-> [fs EXCEPT !.primary = Some([command |-> join(cmd, 1), returncode |-> 0,
                                            stdout |-> "", stderr |-> ""])],
        diags |-> <<>>]
  ELSE IF e.run.t = "oserror"
  THEN [out |-> Raise(Exc("OSError", "oserror", NoInfo)), fs |-> fs, diags |-> <<>>]
  ELSE [out |-> Return([returncode |-> e.run.returncode,
                        stdout |-> e.run.stdout, stderr |-> e.run.stderr]),
        fs |-> fs, diags |-> <<>>]

\* the try block of execute_command without the try/except around each log
\* write: a failed write leaves the block as an OSError
execute_body_fatal_write(self, fs, environ, cmd, logs, e) ==
  IF e.run.t = "timeout"
  THEN [out |-> Raise(Exc("TimeoutExpired", "timeout_expired", NoInfo)),
        fs |-> fs, diags |-> <<>>]
  ELSE IF e.run.t = "oserror"
  THEN [out |-> Raise(Exc("OSError", "oserror", NoInfo)), fs |-> fs, diags |-> <<>>]
  ELSE LET content == log_content(cmd, e.run)
           w1 == write_log(fs.primary, content, logs.primary_log, e.primary_ok)
           w2 == IF logs.copy_log # None
                 THEN write_log(fs.copy, content, logs.copy_log.v, e.copy_ok)
                 ELSE [file |-> fs.copy, diags |-> <<>>]
           info == [returncode |-> e.run.returncode, command |-> join(cmd, 1),
                    stderr |-> e.run.stderr, stdout |-> e.run.stdout,
                    log |-> logs.primary_log]
       IN  IF w1.diags # <<>>
           THEN [out |-> Raise(Exc("OSError", "oserror", NoInfo)), fs |-> fs,
                 diags |-> <<>>]
           ELSE IF w2.diags # <<>>
           THEN [out |-> Raise(Exc("OSError", "oserror", NoInfo)),
                 fs |-> [fs EXCEPT !.primary = w1.file], diags |-> <<>>]
           ELSE IF e.run.returncode # 0
           THEN [out |-> Raise(Exc("RuntimeError", "execution_failed", info)),
                 fs |-> [fs EXCEPT !.primary = w1.file, !.copy = w2.file],
                 diags |-> <<Diag("error", "execution_failed", info)>>]
           ELSE [out |-> Return([returncode |-> e.run.returncode,
                                 stdout |-> e.run.stdout, stderr |-> e.run.stderr]),
                 fs |-> [fs EXCEPT !.primary = w1.file, !.copy = w2.file],
                 diags |-> <<Diag("info", "execution_completed", NoInfo)>>]

\* the try block of execute_command, before any except clause runs
execute_body(self, fs, environ, cmd, logs, e) ==
  IF e.run.t = "timeout"
  THEN [out |-> Raise(Exc("TimeoutExpired", "timeout_expired", NoInfo)),
        fs |-> fs, diags |-> <<>>]
  ELSE IF e.run.t = "oserror"
  THEN [out |-> Raise(Exc("OSError", "oserror", NoInfo)), fs |-> fs, diags |-> <<>>]
  ELSE LET content == log_content(cmd, e.run)
           w1 == write_log(fs.primary, content, logs.primary_log, e.primary_ok)
           w2 == IF logs.copy_log # None
                 THEN write_log(fs.copy, content, logs.copy_log.v, e.copy_ok)
                 ELSE [file |-> fs.copy, diags |-> <<>>]
           fs2 == [fs EXCEPT !.primary = w1.file, !.copy = w2.file]
           info == [returncode |-> e.run.returncode, command |-> join(cmd, 1),
                    stderr |-> e.run.stderr, stdout |-> e.run.stdout,
                    log |-> logs.primary_log]
       IN  IF e.run.returncode # 0
           THEN [out |-> Raise(Exc("RuntimeError", "execution_failed", info)),
                 fs |-> fs2,
                 diags |-> w1.diags \o w2.diags
                           \o <<Diag("error", "execution_failed", info)>>]
           ELSE [out |-> Return([returncode |-> e.run.returncode,
                                 stdout |-> e.run.stdout, stderr |-> e.run.stderr]),
                 fs |-> fs2,
                 diags |-> w1.diags \o w2.diags
                           \o <<Diag("info", "execution_completed", NoInfo)>>]

\* the except clauses of execute_command, in order
execute_handlers(self, cmd, body) ==
  IF body.out.t = "return" THEN body
  ELSE IF body.out.exc.class = "TimeoutExpired"
  THEN LET info == [timeout |-> self.timeout, command |-> join(cmd, 1)]
       IN  [body EXCEPT !.out = Raise(Exc("RuntimeError", "execution_timeout", info)),
                        !.diags = @ \o <<Diag("error", "execution_timeout", info)>>]
  ELSE IF IsException(body.out.exc)
  THEN LET info == [cause |-> body.out.exc, command |-> join(cmd, 1),
                    workdir |-> self.workdir, sif_path |-> self.sif_path]
       IN  [body EXCEPT !.out = Raise(Exc("RuntimeError", "unexpected_error", info)),
                        !.diags = @ \o <<Diag("error", "unexpected_error", info)>>]
  ELSE body

\* appending the lines of validate_all_arguments to argument_warnings.log
append_warnings(fs, lines) == [fs EXCEPT !.warnings = @ \o lines]

\* execute_command building the environment of the command in self.env
\* itself (exec_env = self.env; exec_env.update(...)) instead of in a copy
execute_command_env_in_place(self, fs, environ, kwargs, e) ==
  LET v == validate_apptainer_availability(self, e.wa, e.ws, e.vq)
  IN  IF v.out.t = "raise"
      THEN [self |-> v.self, environ |-> environ, fs |-> fs, out |-> v.out, diags |-> v.diags,
            lookups |-> v.lookups, runs |-> v.runs]
      ELSE
      LET va == validate_all_arguments(kwargs, e.warn_ok)
          fs1 == append_warnings(fs, va.appended)
          apptainer_args == sort_apptainer_kwargs(kwargs).args
          ngpb_args == sort_ngpb_kwargs(kwargs).args
          b == build_command(v.self, apptainer_args, ngpb_args)
      IN  IF b.t = "raise"
          THEN [self |-> v.self, environ |-> environ, fs |-> fs1, out |-> b, diags |-> v.diags \o va.diags,
                lookups |-> v.lookups, runs |-> v.runs]
          ELSE
          LET sl == setup_logging(v.self, fs1, LOG_FILENAME, e.mkdir_ok)
          IN  IF sl.out.t = "raise"
              THEN [self |-> v.self, environ |-> environ, fs |-> sl.fs, out |-> sl.out,
                    diags |-> v.diags \o va.diags,
                    lookups |-> v.lookups, runs |-> v.runs]
              ELSE
              LET cmd == b.value
                  r == execute_handlers(v.self, cmd,
                         execute_body(v.self, sl.fs, environ, cmd, sl.out.value, e))
              IN  [self |-> [v.self EXCEPT !.env = exec_env(environ, v.self)],
                   environ |-> environ, fs |-> r.fs, out |-> r.out,
                   diags |-> v.diags \o va.diags
                             \o <<Diag("info", "executing_command",
                                       [command |-> join(cmd, 1)])>>
                             \o r.diags,
                   lookups |-> v.lookups,
                   runs |-> v.runs \o <<CommandRun(v.self, environ, cmd, e.run)>>]

\* execute_command with the environment answering as e: the executor, the
\* process environment and the files afterwards, the outcome, the diagnostics, the lookups and the
\* subprocess runs made
execute_command(self, fs, environ, kwargs, e) ==
  LET v == validate_apptainer_availability(self, e.wa, e.ws, e.vq)
  IN  IF v.out.t = "raise"
      THEN [self |-> v.self, environ |-> environ, fs |-> fs, out |-> v.out, diags |-> v.diags,
            lookups |-> v.lookups, runs |-> v.runs]
      ELSE
      LET va == validate_all_arguments(kwargs, e.warn_ok)
          fs1 == append_warnings(fs, va.appended)
          apptainer_args == sort_apptainer_kwargs(kwargs).args
          ngpb_args == sort_ngpb_kwargs(kwargs).args
          b == build_command(v.self, apptainer_args, ngpb_args)
      IN  IF b.t = "raise"
          THEN [self |-> v.self, environ |-> environ, fs |-> fs1, out |-> b, diags |-> v.diags \o va.diags,
                lookups |-> v.lookups, runs |-> v.runs]
          ELSE
          LET sl == setup_logging(v.self, fs1, LOG_FILENAME, e.mkdir_ok)
          IN  IF sl.out.t = "raise"
              THEN [self |-> v.self, environ |-> environ, fs |-> sl.fs, out |-> sl.out,
                    diags |-> v.diags \o va.diags,
                    lookups |-> v.lookups, runs |-> v.runs]
              ELSE
              LET cmd == b.value
                  r == execute_handlers(v.self, cmd,
                         execute_body(v.self, sl.fs, environ, cmd, sl.out.value, e))
              IN  [self |-> v.self, environ |-> environ, fs |-> r.fs, out |-> r.out,
                   diags |-> v.diags \o va.diags
                             \o <<Diag("info", "executing_command",
                                       [command |-> join(cmd, 1)])>>
                             \o r.diags,
                   lookups |-> v.lookups,
                   runs |-> v.runs \o <<CommandRun(v.self, environ, cmd, e.run)>>]

----------------------------------------------------------------------------
(* State *)

VARIABLES
  self,      \* the ApptainerExecutor instance: its attributes
  fs,        \* the files the executor writes: both execution logs,
             \* argument_warnings.log, and whether log_copy_dir exists
  environ,   \* os.environ of the calling process
  last,      \* the latest call on the executor: its input and what it did
  calls,     \* the number of calls made on the executor so far
  logging    \* the loggers of the logging module, by name

vars == <<self, fs, environ, last, calls, logging>>

\* the name of the logger _setup_logger asks the logging module for
LOGGER_NAME == "ngpb4py.apptainer.ApptainerExecutor"

\* logging.getLogger(name): the logger registered under the name, which is
\* created on the first request; a logger is referred to by its name
getLogger(registry, name) ==
  IF HasKey(registry, name)
  THEN [logger |-> name, logging |-> registry]
  ELSE [logger |-> name,
        logging |-> DictSet(registry, name, [handlers |-> <<>>, level |-> "NOTSET"])]

\* _setup_logger asking for a logger under the given name
setup_logger_named(registry, name) ==
  LET g == getLogger(registry, name)
  IN  IF Get(g.logging, g.logger).handlers = <<>>
      THEN [logger |-> g.logger,
            logging |-> DictSet(g.logging, g.logger,
                                [handlers |-> <<"StreamHandler">>, level |-> "INFO"])]
      ELSE g

\* _setup_logger: the logger of the instance and the loggers afterwards
_setup_logger(registry) == setup_logger_named(registry, LOGGER_NAME)

\* the loggers once an executor has been constructed
ConfiguredLogging == _setup_logger(<<>>).logging

\* the attributes __init__ sets
Executor(sif_path, n_proc, workdir, env, timeout, log_copy_dir) ==
  [sif_path |-> sif_path, n_proc |-> n_proc, workdir |-> workdir, env |-> env,
   timeout |-> timeout, log_copy_dir |-> log_copy_dir,
   apptainer_path |-> None, logger |-> LOGGER_NAME]

\* no log has been written
EmptyFs == [primary |-> None, copy |-> None, warnings |-> <<>>, copy_dir |-> FALSE]

OS_ENVIRON == <<[key |-> "PATH", value |-> "/usr/bin"], [key |-> "OMP_NUM_THREADS", value |-> "1"]>>

NoCall == [op |-> "none"]

\* a call waiting to be made on the given input
Pending(input) == [op |-> "pending", input |-> input]

Call(op, input, out, diags, lookups, runs) ==
  [op |-> op, input |-> input, out |-> out, diags |-> diags,
   lookups |-> lookups, runs |-> runs]

----------------------------------------------------------------------------
(* Execution coordinator: the executor's methods as steps *)

\* executors as constructed by callers of the coordinator
CoordinatorExecutors ==
  {Executor("/img/ngpb.sif", 1, "/work", <<>>, None, None),
   Executor("/img/ngpb.sif", 1, "/work",
            <<[key |-> "OMP_NUM_THREADS", value |-> "4"],
              [key |-> "CUSTOM_VAR", value |-> "value"]>>,
            PyInt(5), Some("/copy"))}

\* keyword mappings handed to execute_command
ExecKwargs ==
  {<<>>,
   <<[key |-> "bind", value |-> Some("/tmp:/tmp")],
     [key |-> "prmfile", value |-> Some("config.prm")],
     [key |-> "unknown_arg", value |-> PyInt(1)]>>}

NotFound == [t |-> "none"]

RunOk == CHOOSE run \in RunOutcomes(None) : run.t = "exit" /\ run.returncode = 0

VersionOk == CHOOSE vq \in VersionOutcomes : vq.t = "exit" /\ vq.returncode = 0

\* what the search path answers while s resolves its binary: nothing is
\* looked up once s is resolved
LookupEnvs(s) ==
  IF Truthy(s.apptainer_path)
  THEN {[wa |-> NotFound, ws |-> NotFound]}
  ELSE [wa : WhichOutcomes(APPTAINER_BIN), ws : WhichOutcomes(SINGULARITY_BIN)]

\* the answers of the search path that are asked for: "singularity" is
\* looked up only when "apptainer" is absent
AskedLookupEnvs(s) ==
  {l \in LookupEnvs(s) : l.wa.t # "none" => l.ws = NotFound}

\* what the environment answers during one validate_apptainer_availability
\* of s: the version query has an outcome only when it is run
ValidateEnvs(s) ==
  UNION {{[wa |-> l.wa, ws |-> l.ws, vq |-> vq] :
            vq \in IF Truthy(find_apptainer_binary(s, l.wa, l.ws).self.apptainer_path)
                      \/ Truthy(s.apptainer_path)
                   THEN VersionOutcomes ELSE {VersionOk}} :
         l \in AskedLookupEnvs(s)}

\* what the environment answers during one execute_command(**kwargs) of s:
\* each answer varies only when execute_command gets to ask for it
ExecEnvs(s, kwargs) ==
  LET warns == validate_all_arguments(kwargs, TRUE).appended # <<>>
      copies == s.log_copy_dir # None
      Asked == {e \in [warn_ok : BOOLEAN, mkdir_ok : BOOLEAN,
                       run : RunOutcomes(s.timeout),
                       primary_ok : BOOLEAN, copy_ok : BOOLEAN] :
                  /\ ~e.warn_ok => warns /\ e.run.t = "exit" /\ e.primary_ok /\ e.copy_ok
                  /\ ~e.mkdir_ok => copies /\ e.run = RunOk
                  /\ ~e.primary_ok => e.run.t = "exit"
                  /\ ~e.copy_ok => e.run.t = "exit" /\ copies}
      NotAsked == {[warn_ok |-> TRUE, mkdir_ok |-> TRUE, run |-> RunOk,
                    primary_ok |-> TRUE, copy_ok |-> TRUE]}
  IN  UNION {{[wa |-> v.wa, ws |-> v.ws, vq |-> v.vq, warn_ok |-> e.warn_ok,
               mkdir_ok |-> e.mkdir_ok, run |-> e.run, primary_ok |-> e.primary_ok,
               copy_ok |-> e.copy_ok] :
                e \in IF validate_apptainer_availability(s, v.wa, v.ws, v.vq).out.t = "raise"
                      THEN NotAsked ELSE Asked} :
             v \in ValidateEnvs(s)}

Init ==
  /\ self \in CoordinatorExecutors
  /\ fs = EmptyFs
  /\ environ = OS_ENVIRON
  /\ last = NoCall
  /\ calls = 0
  /\ logging = ConfiguredLogging

\* one more call is made on the executor
Called == calls < MaxCalls /\ calls' = calls + 1

FindApptainerBinary ==
  /\ Called
  /\ \E l \in LookupEnvs([self EXCEPT !.apptainer_path = None]) :
       LET r == find_apptainer_binary(self, l.wa, l.ws)
       IN  /\ self' = r.self
           /\ last' = Call("find_apptainer_binary", NoInfo, r.out, r.diags,
                           r.lookups, <<>>)
           /\ UNCHANGED <<fs, environ, logging>>

ValidateApptainerAvailability ==
  /\ Called
  /\ \E e \in ValidateEnvs(self) :
       LET r == validate_apptainer_availability(self, e.wa, e.ws, e.vq)
       IN  /\ self' = r.self
           /\ last' = Call("validate_apptainer_availability", NoInfo, r.out, r.diags,
                           r.lookups, r.runs)
           /\ UNCHANGED <<fs, environ, logging>>

SetupLogging ==
  /\ Called
  /\ \E mkdir_ok \in BOOLEAN :
       LET r == setup_logging(self, fs, LOG_FILENAME, mkdir_ok)
       IN  /\ fs' = r.fs
           /\ last' = Call("setup_logging", [log_filename |-> LOG_FILENAME], r.out,
                           <<>>, <<>>, <<>>)
           /\ UNCHANGED <<self, environ, logging>>

BuildCommand(Args1, Args2) ==
  /\ Called
  /\ \E apptainer_args \in Args1, ngpb_args \in Args2 :
       /\ last' = Call("build_command",
                       [apptainer_args |-> apptainer_args, ngpb_args |-> ngpb_args],
                       build_command(self, apptainer_args, ngpb_args), <<>>, <<>>, <<>>)
       /\ UNCHANGED <<self, fs, environ, logging>>

ValidateAllArguments(K) ==
  /\ Called
  /\ \E kwargs \in K, write_ok \in BOOLEAN :
       LET r == validate_all_arguments(kwargs, write_ok)
       IN  /\ fs' = append_warnings(fs, r.appended)
           /\ last' = Call("validate_all_arguments", kwargs, Return(None), r.diags,
                           <<>>, <<>>)
           /\ UNCHANGED <<self, environ, logging>>

ExecuteCommand(K) ==
  /\ Called
  /\ \E kwargs \in K : \E e \in ExecEnvs(self, kwargs) :
       LET r == execute_command(self, fs, environ, kwargs, e)
       IN  /\ self' = r.self
           /\ fs' = r.fs
           /\ environ' = r.environ
           /\ last' = Call("execute_command", kwargs, r.out, r.diags, r.lookups, r.runs)
           /\ UNCHANGED logging

\* the classified mappings of the keyword mappings handed to execute_command
ExecApptainerArgs == {sort_apptainer_kwargs(k).args : k \in ExecKwargs}

ExecNgpbArgs == {sort_ngpb_kwargs(k).args : k \in ExecKwargs}

Next ==
  \/ FindApptainerBinary
  \/ ValidateApptainerAvailability
  \/ SetupLogging
  \/ BuildCommand(ExecApptainerArgs, ExecNgpbArgs)
  \/ ValidateAllArguments(ExecKwargs)
  \/ ExecuteCommand(ExecKwargs)

Spec == Init /\ [][Next]_vars

----------------------------------------------------------------------------
(* Argument router: the sorters applied to one keyword mapping *)

\* option names handed to the sorters: exact names of either allow-list,
\* prefixed names with a known and with an unknown candidate, names that
\* repeat the prefix, a name of neither namespace
RouterNames ==
  {"bind", "prmfile", "apptainer_bind", "ngpb_prmfile", "apptainer_invalid",
   "ngpb_invalid", "apptainer_apptainer_bind", "ngpb_ngpb_prmfile", "invalid_arg"}

\* option values handed to the sorters
RouterValues == {None, Some("/tmp:/tmp"), PyInt(2), PyBool(TRUE)}

RouterKwargs == DictsOver(RouterNames, RouterValues, MaxKw)

RouterExecutor == Executor("/img/ngpb.sif", 1, "/work", <<>>, None, None)

\* the input of the pending call, if one is pending
PendingInput == IF last.op = "pending" THEN {last.input} ELSE {}

InitRouter ==
  /\ self = RouterExecutor
  /\ fs = EmptyFs
  /\ environ = OS_ENVIRON
  /\ last \in {Pending(kwargs) : kwargs \in RouterKwargs}
  /\ calls = 0
  /\ logging = ConfiguredLogging

SortApptainerKwargs(K) ==
  /\ Called
  /\ \E kwargs \in K :
       /\ last' = Call("sort_apptainer_kwargs", kwargs,
                       Return(sort_apptainer_kwargs(kwargs)), <<>>, <<>>, <<>>)
       /\ UNCHANGED <<self, fs, environ, logging>>

SortNgpbKwargs(K) ==
  /\ Called
  /\ \E kwargs \in K :
       /\ last' = Call("sort_ngpb_kwargs", kwargs,
                       Return(sort_ngpb_kwargs(kwargs)), <<>>, <<>>, <<>>)
       /\ UNCHANGED <<self, fs, environ, logging>>

NextRouter ==
  \/ SortApptainerKwargs(PendingInput)
  \/ SortNgpbKwargs(PendingInput)
  \/ ValidateAllArguments(PendingInput)

SpecRouter == InitRouter /\ [][NextRouter]_vars

----------------------------------------------------------------------------
(* Command builder: build_command applied to one pair of mappings *)

\* executors handed to build_command: relative and absolute paths, one and
\* two digit process counts, unresolved and resolved
BuilderExecutors ==
  {[Executor(sif_path, n_proc, workdir, <<>>, None, None)
      EXCEPT !.apptainer_path = apptainer_path] :
     sif_path \in {"/img/ngpb.sif", "ngpb.sif"},
     n_proc \in 1..MaxProc \cup {12},
     workdir \in {".", "/work"},
     apptainer_path \in {None, Some(APPTAINER_BIN), Some(SINGULARITY_BIN)}}

BuilderApptainerArgs ==
  DictsOver({"bind", "cleanenv"}, {None, Some("/tmp:/tmp"), Some("")}, MaxArgs)

BuilderNgpbArgs ==
  DictsOver({"prmfile", "verbose"}, {None, Some("config.prm")}, MaxArgs)

InitBuilder ==
  /\ self \in BuilderExecutors
  /\ fs = EmptyFs
  /\ environ = OS_ENVIRON
  /\ last \in {Pending([apptainer_args |-> a, ngpb_args |-> n]) :
                 a \in BuilderApptainerArgs, n \in BuilderNgpbArgs}
  /\ calls = 0
  /\ logging = ConfiguredLogging

NextBuilder ==
  BuildCommand({i.apptainer_args : i \in PendingInput}, {i.ngpb_args : i \in PendingInput})

SpecBuilder == InitBuilder /\ [][NextBuilder]_vars

----------------------------------------------------------------------------
(* Properties of the command builder *)

\* the number of tokens a classified mapping is rendered as
RECURSIVE TokenCount(_, _)
TokenCount(d, n) ==
  IF n = 0 THEN 0
  ELSE TokenCount(d, n - 1) + (IF d[n].value = None THEN 1 ELSE 2)

\* cmd holds, right after position base, the options of d in mapping order:
\* --name alone for an absent value, --name then the value otherwise
OptionsAt(cmd, base, d) ==
  \A i \in 1..Len(d) :
    LET at == base + TokenCount(d, i - 1)
    IN  /\ cmd[at + 1] = "--" \o d[i].key
        /\ d[i].value # None => cmd[at + 2] = d[i].value.v

\* the number a decimal numeral denotes
RECURSIVE ParseNat(_)
ParseNat(s) ==
  IF Len(s) = 0 THEN 0
  ELSE 10 * ParseNat(SubSeq(s, 1, Len(s) - 1))
       + (CHOOSE d \in 0..9 : Digit(d) = SubSeq(s, Len(s), Len(s)))

\* a is the absolute form of the path p
IsAbsoluteOf(a, p) ==
  /\ startswith(a, "/")
  /\ startswith(p, "/") => a = p
  /\ ~startswith(p, "/") => startswith(a, CWD)
  /\ ~startswith(p, "/") /\ p # "." => a = CWD \o "/" \o p

\* cmd is the vector the builder is to return for the executor s and the
\* classified mappings a (runtime) and n (program)
IsCommandFor(cmd, s, a, n) ==
  LET ta == TokenCount(a, Len(a))
      tn == TokenCount(n, Len(n))
  IN  /\ Len(cmd) = 6 + ta + 5 + tn
      /\ cmd[1] = s.apptainer_path.v
      /\ SubSeq(cmd, 2, 5) = <<"exec", "--pwd", "/App", "--bind">>
      /\ \E abs \in {SubSeq(cmd[6], 1, Len(cmd[6]) - 5)} :
           /\ cmd[6] = abs \o ":/App"
           /\ IsAbsoluteOf(abs, s.workdir)
      /\ OptionsAt(cmd, 6, a)
      /\ IsAbsoluteOf(cmd[6 + ta + 1], s.sif_path)
      /\ SubSeq(cmd, 6 + ta + 2, 6 + ta + 3) = <<"mpirun", "-np">>
      /\ ParseNat(cmd[6 + ta + 4]) = s.n_proc
      /\ SubSeq(cmd[6 + ta + 4], 1, 1) # "0"
      /\ cmd[6 + ta + 5] = "ngpb"
      /\ OptionsAt(cmd, 6 + ta + 5, n)
      /\ tn = 0 => cmd[Len(cmd)] = "ngpb"

\* C1: on an executor whose apptainer_path is set, build_command returns
\* exactly the resolved binary, "exec", "--pwd", "/App", "--bind",
\* "<absolute workdir>:/App", the runtime options in mapping order, the
\* absolute SIF path, "mpirun", "-np", str(n_proc), "ngpb" and the program
\* options in mapping order, an option being --name alone when its value is
\* absent and --name, value otherwise.
C1_BuildCommandVector ==
  (last.op = "build_command" /\ Truthy(self.apptainer_path)) =>
    /\ last.out.t = "return"
    /\ IsCommandFor(last.out.value, self, last.input.apptainer_args,
                    last.input.ngpb_args)

\* a vector was built from a flag, an empty-valued and a valued option
C1_Witness ==
  /\ last.op = "build_command"
  /\ last.out.t = "return"
  /\ last.input.apptainer_args = <<[key |-> "cleanenv", value |-> None],
                                   [key |-> "bind", value |-> Some("")]>>
  /\ last.input.ngpb_args = <<[key |-> "prmfile", value |-> Some("config.prm")]>>
  /\ self.workdir = "."
  /\ self.n_proc = 12

----------------------------------------------------------------------------
(* Properties of binary resolution and availability validation *)

\* the call looked for both binaries and found neither
NeitherFound ==
  last.lookups = <<Lookup("apptainer", NotFound), Lookup("singularity", NotFound)>>

\* C2: on an unresolved executor with neither binary on the search path,
\* build_command fails with the binary-unresolved error and returns no
\* vector, and validate_apptainer_availability and execute_command fail with
\* the runtime-unavailable error without any subprocess run.
C2_UnresolvedFails ==
  /\ (last.op = "build_command" /\ ~Truthy(self.apptainer_path)) =>
       last.out = Raise(Exc("RuntimeError", "binary_unresolved", NoInfo))
  /\ (last.op \in {"validate_apptainer_availability", "execute_command"}
      /\ NeitherFound) =>
       /\ last.out = Raise(Exc("RuntimeError", "apptainer_not_found", NoInfo))
       /\ last.runs = <<>>
       /\ self.apptainer_path = None

\* execute_command was called while neither binary could be found
C2_Witness ==
  /\ last.op = "execute_command"
  /\ NeitherFound
  /\ last.out.t = "raise"
  /\ last.input # <<>>

----------------------------------------------------------------------------
(* Properties of the argument router *)

\* the elements of a list
Elems(list) == {list[i] : i \in 1..Len(list)}

\* s is the string form of the value val, which is not None
IsStringFormOf(s, val) ==
  CASE val.t = "str" -> s = val.v
    [] val.t = "int" -> val.v >= 0 /\ ParseNat(s) = val.v /\ Len(s) >= 1
    [] val.t = "bool" -> s = (IF val.v THEN "True" ELSE "False")

\* in the mapping d the key k carries the value val, stringified
CarriesValue(d, k, val) ==
  /\ HasKey(d, k)
  /\ IF val = None THEN Get(d, k) = None
     ELSE Get(d, k) # None /\ IsStringFormOf(Get(d, k).v, val)

\* what follows the leading prefix of a name that starts with it
Candidate(name, prefix) == SubSeq(name, Len(prefix) + 1, Len(name))

\* the sorter call of the state, if it is one: its allow-list, its prefix,
\* the other destination's allow-list
IsSorterCall == last.op \in {"sort_apptainer_kwargs", "sort_ngpb_kwargs"}

OwnArgs == IF last.op = "sort_apptainer_kwargs" THEN APPTAINER_KNOWN_ARGS ELSE NGPB_KNOWN_ARGS

OtherArgs == IF last.op = "sort_apptainer_kwargs" THEN NGPB_KNOWN_ARGS ELSE APPTAINER_KNOWN_ARGS

OwnPrefix == IF last.op = "sort_apptainer_kwargs" THEN APPTAINER_PREFIX ELSE NGPB_PREFIX

\* C3: a supplied name of a destination's allow-list is a key of that
\* destination's returned mapping, carrying the string form of the supplied
\* value (absent for an absent value), whatever else the mapping holds, and a
\* name of the other destination's allow-list is not a key of it.
C3_AllowListedRoundTrip ==
  IsSorterCall =>
    \A i \in 1..Len(last.input) :
      /\ last.input[i].key \in OwnArgs =>
           CarriesValue(last.out.value.args, last.input[i].key, last.input[i].value)
      /\ last.input[i].key \in OtherArgs =>
           ~HasKey(last.out.value.args, last.input[i].key)

\* C4: a supplied name <prefix><candidate> puts candidate among the keys of
\* the destination's mapping when candidate is in the allow-list, and
\* otherwise puts the prefixed name into the unrecognized list and no key
\* into the mapping, also when candidate contains the prefix again.
C4_PrefixedCandidate ==
  IsSorterCall =>
    /\ \A i \in 1..Len(last.input) :
         LET name == last.input[i].key
         IN  startswith(name, OwnPrefix) =>
               IF Candidate(name, OwnPrefix) \in OwnArgs
               THEN HasKey(last.out.value.args, Candidate(name, OwnPrefix))
               ELSE name \in Elems(last.out.value.unknown)
    /\ Keys(last.out.value.args) \subseteq
         {k \in OwnArgs :
            \E i \in 1..Len(last.input) :
              \/ last.input[i].key = k
              \/ /\ startswith(last.input[i].key, OwnPrefix)
                 /\ Candidate(last.input[i].key, OwnPrefix) = k}

\* the keys the runtime sorter and the program sorter return for one mapping
RuntimeKeys(kwargs) ==
  IF last.op = "sort_apptainer_kwargs" /\ last.input = kwargs
  THEN Keys(last.out.value.args) ELSE Keys(sort_apptainer_kwargs(kwargs).args)

ProgramKeys(kwargs) ==
  IF last.op = "sort_ngpb_kwargs" /\ last.input = kwargs
  THEN Keys(last.out.value.args) ELSE Keys(sort_ngpb_kwargs(kwargs).args)

\* C5: for one input mapping the keys of the runtime sorter's mapping and the
\* keys of the program sorter's mapping are disjoint, and no supplied name,
\* sorted on its own, yields a key in both.
C5_DisjointKeys ==
  IsSorterCall =>
    /\ RuntimeKeys(last.input) \cap ProgramKeys(last.input) = {}
    /\ \A i \in 1..Len(last.input) :
         \/ Keys(sort_apptainer_kwargs(<<last.input[i]>>).args) = {}
         \/ Keys(sort_ngpb_kwargs(<<last.input[i]>>).args) = {}

\* both sorters were given names of both namespaces, exact and prefixed
C5_Witness ==
  /\ last.op = "sort_ngpb_kwargs"
  /\ Keys(last.input) = {"bind", "ngpb_prmfile"}
  /\ ProgramKeys(last.input) = {"prmfile"}
  /\ RuntimeKeys(last.input) = {"bind"}

\* a supplied name that is outside the sorter's allow-list and does not
\* start with the sorter's prefix
Foreign(name) == name \notin OwnArgs /\ ~startswith(name, OwnPrefix)

\* C6 as claimed: for either sorter, a supplied name outside its allow-list
\* and without its prefix is neither a key of the returned mapping nor an
\* entry of the returned unrecognized list.
C6_ForeignExcluded ==
  IsSorterCall =>
    \A i \in 1..Len(last.input) :
      Foreign(last.input[i].key) =>
        /\ last.input[i].key \notin Keys(last.out.value.args)
        /\ last.input[i].key \notin Elems(last.out.value.unknown)

\* C6 as amended: such a name is never a key of the returned mapping; the
\* runtime sorter never lists it as unrecognized; the program sorter lists
\* it as unrecognized exactly when it is also outside the runtime allow-list
\* and does not start with "apptainer_".
C6_ForeignExcludedAmended ==
  IsSorterCall =>
    \A i \in 1..Len(last.input) :
      LET name == last.input[i].key
      IN  Foreign(name) =>
            /\ name \notin Keys(last.out.value.args)
            /\ last.op = "sort_apptainer_kwargs" =>
                 name \notin Elems(last.out.value.unknown)
            /\ last.op = "sort_ngpb_kwargs" =>
                 (name \in Elems(last.out.value.unknown)
                    <=> (name \notin APPTAINER_KNOWN_ARGS
                         /\ ~startswith(name, APPTAINER_PREFIX)))

\* the program sorter was given a runtime name, a prefixed runtime name and
\* a name of neither namespace
C6_Witness ==
  /\ last.op = "sort_ngpb_kwargs"
  /\ Keys(last.input) \in {{"bind", "invalid_arg"}, {"apptainer_invalid", "invalid_arg"}}
  /\ last.out.value.unknown = <<"invalid_arg">>

\* a name of neither allow-list that carries neither prefix
TrulyUnknown(name) ==
  /\ name \notin APPTAINER_KNOWN_ARGS /\ name \notin NGPB_KNOWN_ARGS
  /\ ~startswith(name, APPTAINER_PREFIX) /\ ~startswith(name, NGPB_PREFIX)

\* a name of the runtime namespace
RuntimeName(name) ==
  name \in APPTAINER_KNOWN_ARGS \/ startswith(name, APPTAINER_PREFIX)

\* an ngpb_-prefixed name whose candidate is not a program option
UnknownNgpbCandidate(name) ==
  startswith(name, NGPB_PREFIX) /\ Candidate(name, NGPB_PREFIX) \notin NGPB_KNOWN_ARGS

\* the "Unknown arguments provided" diagnostics of the call
UnknownArgumentsDiags ==
  {i \in 1..Len(last.diags) : last.diags[i].msg = "unknown_arguments"}

\* C7: sort_ngpb_kwargs lists every supplied name of neither allow-list and
\* neither prefix, and never a runtime name; the "Unknown arguments provided"
\* diagnostic of validate_all_arguments never names a runtime name and is
\* emitted exactly when a name of neither namespace, or an ngpb_-prefixed
\* name with an unknown candidate, was supplied.
C7_UnknownReport ==
  /\ last.op = "sort_ngpb_kwargs" =>
       /\ \A i \in 1..Len(last.input) :
            TrulyUnknown(last.input[i].key) =>
              last.input[i].key \in Elems(last.out.value.unknown)
       /\ \A name \in Elems(last.out.value.unknown) : ~RuntimeName(name)
  /\ last.op = "validate_all_arguments" =>
       /\ \A d \in UnknownArgumentsDiags :
            \A name \in Elems(last.diags[d].info.args) : ~RuntimeName(name)
       /\ UnknownArgumentsDiags # {}
            <=> \E i \in 1..Len(last.input) :
                  \/ TrulyUnknown(last.input[i].key)
                  \/ UnknownNgpbCandidate(last.input[i].key)

----------------------------------------------------------------------------
(* Properties of binary resolution and availability validation *)

Found(path) == [t |-> "found", v |-> path]

\* the warning that the fallback runtime is used
FallbackWarning == Diag("warning", "singularity_fallback", NoInfo)

\* the latest call looked "apptainer" up without finding it and then found
\* "singularity"
FellBack ==
  last.lookups = <<Lookup("apptainer", NotFound),
                   Lookup("singularity", Found(SINGULARITY_BIN))>>

\* C8: find_apptainer_binary asks the search path for "apptainer" first; when
\* that is found it returns and records that path and never asks for
\* "singularity"; it returns the "singularity" path only when "apptainer" was
\* looked up and absent, and exactly then it emits the fallback warning.
C8_PrimaryPreferred ==
  last.op = "find_apptainer_binary" =>
    /\ last.lookups[1].name = "apptainer"
    /\ last.lookups[1].res.t = "found" =>
         /\ last.lookups = <<Lookup("apptainer", Found(APPTAINER_BIN))>>
         /\ last.out = Return(Some(APPTAINER_BIN))
         /\ self.apptainer_path = Some(APPTAINER_BIN)
    /\ last.out = Return(Some(SINGULARITY_BIN)) <=> FellBack
    /\ FellBack => self.apptainer_path = Some(SINGULARITY_BIN)
    /\ (\E i \in 1..Len(last.diags) : last.diags[i] = FallbackWarning) <=> FellBack

\* find_apptainer_binary fell back to "singularity"
C8_Witness ==
  /\ last.op = "find_apptainer_binary"
  /\ FellBack
  /\ last.out = Return(Some(SINGULARITY_BIN))

\* a lookup of the latest call ended in an error
LookupRaised == \E i \in 1..Len(last.lookups) : last.lookups[i].res.t = "raise"

\* C9: when a lookup of the search path raises, find_apptainer_binary
\* raises nothing, returns None and leaves the executor as it was, as for a
\* binary that is not found; validate_apptainer_availability on an executor
\* that had to resolve its binary then fails with the runtime-unavailable
\* error and runs no subprocess.
C9_LookupErrorIsNotFound ==
  [][ /\ (last'.op = "find_apptainer_binary" /\ LookupRaised') =>
           /\ last'.out = Return(None)
           /\ self' = self
      /\ (last'.op = "validate_apptainer_availability" /\ LookupRaised') =>
           /\ last'.out = Raise(Exc("RuntimeError", "apptainer_not_found", NoInfo))
           /\ last'.runs = <<>>
           /\ self' = self
           /\ self.apptainer_path = None ]_vars

\* validate_apptainer_availability was called while the lookup raised
C9_Witness ==
  /\ last.op = "validate_apptainer_availability"
  /\ LookupRaised
  /\ last.out.t = "raise"

\* the version query of the latest validate_apptainer_availability
VersionQuery == last.runs[1].outcome

\* C10: validate_apptainer_availability on a resolved path fails with the
\* not-functional error carrying the exit code and the stderr text when the
\* version query exits non-zero, with the timed-out error when it exceeds
\* its limit, with the functionality-test error wrapping the cause on any
\* other failure, and returns normally when the query exits with code 0.
C10_VersionQueryFailures ==
  (last.op = "validate_apptainer_availability" /\ last.runs # <<>>) =>
    /\ (VersionQuery.t = "exit" /\ VersionQuery.returncode # 0) =>
         /\ last.out.t = "raise"
         /\ last.out.exc.kind = "not_functional"
         /\ last.out.exc.info.returncode = VersionQuery.returncode
         /\ last.out.exc.info.stderr = VersionQuery.stderr
    /\ VersionQuery.t = "timeout" =>
         /\ last.out.t = "raise"
         /\ last.out.exc.kind = "version_check_timeout"
    /\ VersionQuery.t = "oserror" =>
         /\ last.out.t = "raise"
         /\ last.out.exc.kind = "functionality_error"
         /\ last.out.exc.info.cause.class = "OSError"
    /\ (VersionQuery.t = "exit" /\ VersionQuery.returncode = 0) =>
         last.out = Return(None)

----------------------------------------------------------------------------
(* Properties of command execution *)

\* the latest call is an execute_command that spawned the built command
Spawned == last.op = "execute_command" /\ Len(last.runs) = 2

\* the spawned command of the latest execute_command, and how it ended
Command == last.runs[2]

\* the primary log path of the executor
PrimaryLog == PathJoin(self.workdir, LOG_FILENAME)

\* C11: when the spawned command completes, execute_command returns the
\* result (exit status and both streams) exactly when the exit status is 0,
\* and for a non-zero status raises the execution-failed error carrying the
\* exit status, the joined command, both streams and the primary log path.
C11_ExitStatusDecides ==
  (Spawned /\ Command.outcome.t = "exit") =>
    /\ last.out.t = "return" <=> Command.outcome.returncode = 0
    /\ Command.outcome.returncode = 0 =>
         last.out.value = [returncode |-> 0, stdout |-> Command.outcome.stdout,
                           stderr |-> Command.outcome.stderr]
    /\ Command.outcome.returncode # 0 =>
         /\ last.out.exc.kind = "execution_failed"
         /\ last.out.exc.info = [returncode |-> Command.outcome.returncode,
                                 command |-> join(Command.argv, 1),
                                 stderr |-> Command.outcome.stderr,
                                 stdout |-> Command.outcome.stdout,
                                 log |-> PrimaryLog]

\* C12: when the spawned command exceeds the configured timeout,
\* execute_command raises the timed-out error naming the configured timeout
\* and the joined command, and the call leaves the primary and the secondary
\* execution log as they were.
C12_TimeoutWritesNoLog ==
  [][ (last'.op = "execute_command" /\ Len(last'.runs) = 2
       /\ last'.runs[2].outcome.t = "timeout") =>
        /\ last'.out.t = "raise"
        /\ last'.out.exc.kind = "execution_timeout"
        /\ self.timeout # None
        /\ last'.out.exc.info.timeout = self.timeout
        /\ last'.out.exc.info.command = join(last'.runs[2].argv, 1)
        /\ fs'.primary = fs.primary
        /\ fs'.copy = fs.copy ]_vars

\* the spawned command timed out on an executor whose earlier call left a log
C12_Witness ==
  /\ Spawned
  /\ Command.outcome.t = "timeout"
  /\ fs.primary # None
  /\ fs.primary.v.returncode = 0

\* C13: the environment passed to the spawned command has every key of the
\* executor's env with env's value, every other inherited key with its
\* inherited value and no further key, and the call leaves the environment
\* of the calling process unchanged.
C13_EnvironmentOverlay ==
  [][ (last'.op = "execute_command" /\ Len(last'.runs) = 2) =>
        LET passed == last'.runs[2].env
        IN  /\ Keys(passed) = Keys(environ) \cup Keys(self.env)
            /\ \A k \in Keys(self.env) : Get(passed, k) = Get(self.env, k)
            /\ \A k \in Keys(environ) \ Keys(self.env) : Get(passed, k) = Get(environ, k)
            /\ environ' = environ ]_vars

\* a command was spawned by an executor whose env overrides an inherited
\* variable and adds a new one
C13_Witness ==
  /\ Spawned
  /\ Keys(self.env) \cap Keys(environ) # {}
  /\ Keys(self.env) \ Keys(environ) # {}
  /\ Keys(environ) \ Keys(self.env) # {}
  /\ \E k \in Keys(self.env) \cap Keys(environ) : Get(self.env, k) # Get(environ, k)

\* the diagnostic of a failed write to the log at path
LoggingError(path) == Diag("error", "logging_error", [path |-> path])

\* the list of diagnostics holds d
Emitted(diags, d) == \E i \in 1..Len(diags) : diags[i] = d

\* the secondary log path of the executor s
CopyLog(s) == PathJoin(s.log_copy_dir.v, LOG_FILENAME)

\* some run of execute_command on the state before the latest call, in which
\* the environment answers every filesystem operation named by ok with
\* success, makes the same lookups and subprocess runs as the latest call
\* and ends as it did
SameOutcomeWith(ok(_)) ==
  \E e \in ExecEnvs(self, last'.input) :
    /\ ok(e)
    /\ Len(last'.runs) >= 1 => e.vq = last'.runs[1].outcome
    /\ Len(last'.runs) = 2 => e.run = last'.runs[2].outcome
    /\ LET r == execute_command(self, fs, environ, last'.input, e)
       IN  /\ r.lookups = last'.lookups
           /\ r.runs = last'.runs
           /\ r.out = last'.out

LogWritesOk(e) == e.primary_ok /\ e.copy_ok

\* C14: when the spawned command completes, the same record is written to
\* the primary log and, when one is configured, to the secondary log; each
\* write either succeeds or is reported by an error diagnostic, whatever
\* becomes of the other, and the call ends exactly as a call in which both
\* writes succeed.
C14_LogWriteFailuresCaught ==
  [][ (last'.op = "execute_command" /\ Len(last'.runs) = 2
       /\ last'.runs[2].outcome.t = "exit") =>
        LET record == Some(log_content(last'.runs[2].argv, last'.runs[2].outcome))
            primary == PathJoin(self'.workdir, LOG_FILENAME)
        IN  /\ fs'.primary = record \/ Emitted(last'.diags, LoggingError(primary))
            /\ self'.log_copy_dir # None =>
                 fs'.copy = record \/ Emitted(last'.diags, LoggingError(CopyLog(self')))
            /\ self'.log_copy_dir = None => fs'.copy = fs.copy
            /\ (\/ Emitted(last'.diags, LoggingError(primary))
                \/ /\ self'.log_copy_dir # None
                   /\ Emitted(last'.diags, LoggingError(CopyLog(self')))) =>
                 SameOutcomeWith(LogWritesOk) ]_vars

\* the write to the primary log failed, the write to the secondary log
\* succeeded, and the call returned the result of the command
C14_Witness ==
  /\ Spawned
  /\ Command.outcome.t = "exit"
  /\ Emitted(last.diags, LoggingError(PrimaryLog))
  /\ self.log_copy_dir # None
  /\ fs.copy = Some(log_content(Command.argv, Command.outcome))
  /\ last.out.t = "return"

AllLogOperationsOk(e) == e.warn_ok /\ e.mkdir_ok /\ e.primary_ok /\ e.copy_ok

\* C15: once the version query of an execute_command has succeeded, no
\* failure of a log-related filesystem operation (the append to
\* argument_warnings.log, the creation of the secondary log directory, the
\* write of either execution log) keeps the command from being spawned or
\* changes how the call ends: it ends exactly as a call in which all of
\* these operations succeed.
C15_LogFailuresNotFatal ==
  [][ (last'.op = "execute_command" /\ Len(last'.runs) >= 1
       /\ last'.runs[1].outcome.t = "exit"
       /\ last'.runs[1].outcome.returncode = 0) =>
        /\ Len(last'.runs) = 2
        /\ SameOutcomeWith(AllLogOperationsOk) ]_vars

----------------------------------------------------------------------------
(* Construction: __init__ applied to one set of arguments *)

\* the files and directories that exist before an executor is constructed
InitFs ==
  [files |-> {"/img/ngpb.sif", CWD \o "/test.sif"},
   dirs |-> {CWD, "/img"}]

\* Path.exists()
exists(files, p) == PathAbsolute(p) \in files.files \cup files.dirs

\* Path.is_absolute()
is_absolute(p) == startswith(p, "/")

\* Path.mkdir(parents=True, exist_ok=True): the directories afterwards, or
\* the error of a directory that cannot be created (ok is FALSE)
mkdir(files, p, ok) ==
  IF PathAbsolute(p) \in files.dirs THEN Return(files)
  ELSE IF ok THEN Return([files EXCEPT !.dirs = @ \cup {PathAbsolute(p)}])
  ELSE Raise(Exc("OSError", "mkdir_failed", [path |-> p]))

\* _validate_init_params accepting a timeout of 0
_validate_init_params_zero_timeout(obj, files) ==
  IF ~exists(files, obj.sif_path)
  THEN Raise(Exc("FileNotFoundError", "sif_not_found", [sif_path |-> obj.sif_path]))
  ELSE IF obj.n_proc <= 0
  THEN Raise(Exc("ValueError", "n_proc_not_positive", [n_proc |-> obj.n_proc]))
  ELSE IF obj.timeout # None /\ obj.timeout.v < 0
  THEN Raise(Exc("ValueError", "timeout_not_positive", [timeout |-> obj.timeout]))
  ELSE Return(None)

\* _validate_init_params on the instance obj
_validate_init_params(obj, files) ==
  IF ~exists(files, obj.sif_path)
  THEN Raise(Exc("FileNotFoundError", "sif_not_found", [sif_path |-> obj.sif_path]))
  ELSE IF obj.n_proc <= 0
  THEN Raise(Exc("ValueError", "n_proc_not_positive", [n_proc |-> obj.n_proc]))
  ELSE IF obj.timeout # None /\ obj.timeout.v <= 0
  THEN Raise(Exc("ValueError", "timeout_not_positive", [timeout |-> obj.timeout]))
  ELSE Return(None)

\* __init__ with the arguments a, the loggers registry and the files as
\* given; mkdir_ok tells whether a missing working directory can be created.
\* The outcome is the new instance or the error raised
__init__(registry, files, a, mkdir_ok) ==
  LET l == _setup_logger(registry)
      obj == [Executor(a.sif_path, a.n_proc, a.workdir,
                       IF a.env = None THEN <<>> ELSE a.env.v,
                       a.timeout,
                       IF Truthy(a.log_copy_dir) THEN a.log_copy_dir ELSE None)
                EXCEPT !.logger = l.logger]
      m == mkdir(files, obj.workdir, mkdir_ok)
  IN  IF m.t = "raise"
      THEN [out |-> m, fs |-> files, logging |-> l.logging]
      ELSE LET v == _validate_init_params(obj, m.value)
           IN  [out |-> IF v.t = "raise" THEN v ELSE Return(obj),
                fs |-> m.value, logging |-> l.logging]

\* a dict handed over as an optional argument
PyDict(d) == [t |-> "dict", v |-> d]

\* arguments handed to the constructor
InitArgs ==
  [sif_path : {"/img/ngpb.sif", "test.sif", "/img/missing.sif"},
   n_proc : -1..MaxProc,
   workdir : {".", "/work", "../../../etc"},
   env : {None, PyDict(<<>>), PyDict(<<[key |-> "CUSTOM_VAR", value |-> "value"]>>)},
   timeout : {None} \cup {PyInt(n) : n \in -1..MaxTimeout},
   log_copy_dir : {None, Some(""), Some("/copy")}]

\* no instance has been constructed
NoInstance == None

InitConstruction ==
  /\ self = NoInstance
  /\ fs = InitFs
  /\ environ = OS_ENVIRON
  /\ last \in {Pending([args |-> a, mkdir_ok |-> ok]) : a \in InitArgs, ok \in BOOLEAN}
  /\ calls = 0
  /\ logging = <<>>

Construct(I) ==
  /\ Called
  /\ \E i \in I :
       LET r == __init__(logging, fs, i.args, i.mkdir_ok)
       IN  /\ self' = IF r.out.t = "return" THEN r.out.value ELSE self
           /\ fs' = r.fs
           /\ logging' = r.logging
           /\ last' = Call("__init__", i, r.out, <<>>, <<>>, <<>>)
           /\ UNCHANGED environ

NextConstruction == Construct(PendingInput)

SpecInit == InitConstruction /\ [][NextConstruction]_vars

----------------------------------------------------------------------------
(* Properties of construction *)

\* the arguments of the latest construction
Args == last.input.args

\* the SIF file exists, n_proc > 0, and timeout is absent or > 0
ValidArgs ==
  /\ exists(fs, Args.sif_path)
  /\ Args.n_proc > 0
  /\ Args.timeout = None \/ Args.timeout.v > 0

ConfigurationErrors == {"sif_not_found", "n_proc_not_positive", "timeout_not_positive"}

\* C16 as stated: construction succeeds exactly when the SIF file exists,
\* n_proc > 0 and timeout is absent or > 0, and otherwise raises a
\* configuration error; every constructed executor has n_proc > 0 and a
\* timeout that is absent or > 0.
C16_ConstructionIffValid ==
  last.op = "__init__" =>
    /\ last.out.t = "return" <=> ValidArgs
    /\ ~ValidArgs => last.out.exc.kind \in ConfigurationErrors
    /\ last.out.t = "return" =>
         /\ self.n_proc > 0
         /\ self.timeout = None \/ self.timeout.v > 0

\* the working directory exists once the constructor has run
WorkdirCreated == PathAbsolute(Args.workdir) \in fs.dirs

\* C16, amended: when the working directory exists or can be created,
\* construction succeeds exactly when the SIF file exists, n_proc > 0 and
\* timeout is absent or > 0, and otherwise raises the configuration error of
\* the first of these that fails; when the working directory cannot be
\* created, construction raises the error of creating it, whatever the
\* other arguments. Every constructed executor has n_proc > 0 and a timeout
\* that is absent or > 0.
C16_ConstructionIffValidAmended ==
  last.op = "__init__" =>
    /\ WorkdirCreated =>
         /\ last.out.t = "return" <=> ValidArgs
         /\ ~exists(fs, Args.sif_path) => last.out.exc.kind = "sif_not_found"
         /\ (exists(fs, Args.sif_path) /\ Args.n_proc <= 0) =>
              last.out.exc.kind = "n_proc_not_positive"
         /\ (exists(fs, Args.sif_path) /\ Args.n_proc > 0 /\ ~ValidArgs) =>
              last.out.exc.kind = "timeout_not_positive"
    /\ ~WorkdirCreated =>
         /\ ~last.input.mkdir_ok
         /\ last.out = Raise(Exc("OSError", "mkdir_failed", [path |-> Args.workdir]))
    /\ last.out.t = "return" <=> self # NoInstance
    /\ last.out.t = "return" =>
         /\ self.n_proc > 0
         /\ self.timeout = None \/ self.timeout.v > 0

\* construction was refused for a timeout of 0 with all else in order
C16_Witness ==
  /\ last.op = "__init__"
  /\ WorkdirCreated
  /\ exists(fs, Args.sif_path)
  /\ Args.n_proc > 0
  /\ Args.timeout = PyInt(0)
  /\ last.out.t = "raise"

\* C18: after successful construction the executor's sif_path and workdir
\* are absolute paths, also when a relative path was supplied, and the
\* working directory exists.
C18_PathsAbsolute ==
  (last.op = "__init__" /\ last.out.t = "return") =>
    /\ is_absolute(self.sif_path)
    /\ is_absolute(self.workdir)
    /\ exists(fs, self.workdir)

----------------------------------------------------------------------------
(* Several instances: executors constructed and used side by side *)

\* arguments the instances are constructed with
InstanceArgs ==
  [sif_path : {"/img/ngpb.sif"}, n_proc : 1..MaxProc, workdir : {".", "/work"},
   env : {None}, timeout : {None}, log_copy_dir : {None}]

InitInstances ==
  /\ self = <<>>
  /\ fs = InitFs
  /\ environ = OS_ENVIRON
  /\ last = NoCall
  /\ calls = 0
  /\ logging = <<>>

\* one more instance is constructed
ConstructInstance ==
  /\ Len(self) < MaxInstances
  /\ \E a \in InstanceArgs :
       LET r == __init__(logging, fs, a, TRUE)
       IN  /\ self' = Append(self, r.out.value)
           /\ fs' = r.fs
           /\ logging' = r.logging
           /\ last' = Call("__init__", [args |-> a, mkdir_ok |-> TRUE, instance |-> Len(self) + 1],
                           r.out, <<>>, <<>>, <<>>)
           /\ UNCHANGED <<environ, calls>>

FindApptainerBinaryOn(i) ==
  /\ Called
  /\ \E l \in LookupEnvs([self[i] EXCEPT !.apptainer_path = None]) :
       LET r == find_apptainer_binary(self[i], l.wa, l.ws)
       IN  /\ self' = [self EXCEPT ![i] = r.self]
           /\ last' = Call("find_apptainer_binary", [instance |-> i], r.out, r.diags,
                           r.lookups, <<>>)
           /\ UNCHANGED <<fs, environ, logging>>

ValidateApptainerAvailabilityOn(i) ==
  /\ Called
  /\ \E e \in ValidateEnvs(self[i]) :
       LET r == validate_apptainer_availability(self[i], e.wa, e.ws, e.vq)
       IN  /\ self' = [self EXCEPT ![i] = r.self]
           /\ last' = Call("validate_apptainer_availability", [instance |-> i], r.out,
                           r.diags, r.lookups, r.runs)
           /\ UNCHANGED <<fs, environ, logging>>

NextInstances ==
  \/ ConstructInstance
  \/ \E i \in 1..Len(self) : FindApptainerBinaryOn(i)
  \/ \E i \in 1..Len(self) : ValidateApptainerAvailabilityOn(i)

SpecInstances == InitInstances /\ [][NextInstances]_vars

\* C17: two executor instances have distinct loggers, and no operation on
\* one instance changes the logger or the apptainer_path (or any other
\* attribute) of another.
C17_InstancesIndependent ==
  [][ /\ \A i, j \in 1..Len(self') : i # j => self'[i].logger # self'[j].logger
      /\ \A j \in 1..Len(self) :
           j # last'.input.instance =>
             /\ self'[j] = self[j]
             /\ Get(logging', self'[j].logger) = Get(logging, self[j].logger) ]_vars

----------------------------------------------------------------------------
(* Installer entry point: main of setup.py *)

\* os.path.join(os.path.dirname(__file__), "setup.sh")
SCRIPT_PATH == "/site-packages/ngpb4py/setup.sh"

\* The outcomes of  subprocess.run(["bash", script_path], check=True): the
\* script exits with a status, is killed by signal 9, or bash cannot be run
ScriptOutcomes ==
  {[t |-> "exit", returncode |-> n] : n \in 0..MaxReturncode}
  \cup {[t |-> "exit", returncode |-> -9], [t |-> "oserror"]}

\* the subprocess run of the provisioning script
ScriptRun(script_path, outcome) ==
  [argv |-> <<"bash", script_path>>, check |-> TRUE, outcome |-> outcome]

\* sys.exit(code)
SystemExit(code) == Raise(Exc("SystemExit", "exit", [code |-> code]))

\* main leaving with status 1 whenever the script fails
main_status_one(files, run) ==
  IF SCRIPT_PATH \notin files.files
  THEN [out |-> SystemExit(1), runs |-> <<>>,
        stderr |-> <<[msg |-> "setup_sh_not_found", path |-> SCRIPT_PATH]>>]
  ELSE IF run.t = "oserror"
  THEN [out |-> Raise(Exc("FileNotFoundError", "oserror", NoInfo)),
        runs |-> <<ScriptRun(SCRIPT_PATH, run)>>, stderr |-> <<>>]
  ELSE IF run.returncode # 0
  THEN [out |-> SystemExit(1), runs |-> <<ScriptRun(SCRIPT_PATH, run)>>,
        stderr |-> <<[msg |-> "error_running_setup_sh", returncode |-> run.returncode]>>]
  ELSE [out |-> Return(None), runs |-> <<ScriptRun(SCRIPT_PATH, run)>>, stderr |-> <<>>]

\* main with the script ending as run: how main ends, the subprocess runs it
\* made and what it printed to stderr
main(files, run) ==
  IF SCRIPT_PATH \notin files.files
  THEN [out |-> SystemExit(1), runs |-> <<>>,
        stderr |-> <<[msg |-> "setup_sh_not_found", path |-> SCRIPT_PATH]>>]
  ELSE IF run.t = "oserror"
  THEN [out |-> Raise(Exc("FileNotFoundError", "oserror", NoInfo)),
        runs |-> <<ScriptRun(SCRIPT_PATH, run)>>, stderr |-> <<>>]
  ELSE IF run.returncode # 0
  THEN [out |-> SystemExit(run.returncode), runs |-> <<ScriptRun(SCRIPT_PATH, run)>>,
        stderr |-> <<[msg |-> "error_running_setup_sh", returncode |-> run.returncode]>>]
  ELSE [out |-> Return(None), runs |-> <<ScriptRun(SCRIPT_PATH, run)>>, stderr |-> <<>>]

\* the exit status of the interpreter running main as its program: 0 when
\* main returns, the low byte of the code of sys.exit, 1 for any other error
ExitStatus(out) ==
  IF out.t = "return" THEN 0
  ELSE IF out.exc.class = "SystemExit" THEN out.exc.info.code % 256
  ELSE 1

InitSetup ==
  /\ self = NoInstance
  /\ fs \in {InitFs, [InitFs EXCEPT !.files = @ \cup {SCRIPT_PATH}]}
  /\ environ = OS_ENVIRON
  /\ last \in {Pending(run) : run \in ScriptOutcomes}
  /\ calls = 0
  /\ logging = <<>>

Main(I) ==
  /\ Called
  /\ \E run \in I :
       LET r == main(fs, run)
       IN  /\ last' = [Call("main", run, r.out, <<>>, <<>>, r.runs)
                         EXCEPT !.diags = r.stderr]
           /\ UNCHANGED <<self, fs, environ, logging>>

NextSetup == Main(PendingInput)

SpecSetup == InitSetup /\ [][NextSetup]_vars

----------------------------------------------------------------------------
(* Properties of the resolved binary *)

\* the call c ran a version query on path that exited with status 0
ConfirmedBy(c, path) ==
  \E i \in 1..Len(c.runs) :
    /\ c.runs[i].argv = <<path, "--version">>
    /\ c.runs[i].outcome.t = "exit"
    /\ c.runs[i].outcome.returncode = 0

\* the call c, the first on its executor, left a binary that no version
\* query has confirmed: it only found it, or its version query failed
Unconfirmed(c) ==
  \/ c.op = "find_apptainer_binary" /\ c.out.t = "return" /\ c.out.value # None
  \/ c.op = "validate_apptainer_availability" /\ c.out.t = "raise" /\ c.runs # <<>>

\* C20: apptainer_path is set only to a path on which a version query has
\* completed with exit status 0, and build_command does not succeed with a
\* binary that was only found or whose version query failed or timed out.
C20_ResolvedMeansFunctional ==
  [][ /\ (Truthy(self'.apptainer_path) /\ self'.apptainer_path # self.apptainer_path) =>
           ConfirmedBy(last', self'.apptainer_path.v)
      /\ (calls = 1 /\ Unconfirmed(last) /\ last'.op = "build_command") =>
           last'.out.t = "raise" ]_vars

----------------------------------------------------------------------------
(* Properties of a repeated resolution *)

\* the latest call is a find_apptainer_binary that looked for both binaries
\* and found neither
FoundNeither == last.op = "find_apptainer_binary" /\ NeitherFound

\* C21: whenever find_apptainer_binary finds neither binary, also on an
\* executor resolved by an earlier call, it returns None and the executor is
\* unresolved when the call returns, so that a build_command that follows
\* fails with the binary-unresolved error.
C21_NotFoundLeavesUnresolved ==
  [][ /\ FoundNeither' =>
           /\ last'.out = Return(None)
           /\ self'.apptainer_path = None
      /\ (FoundNeither /\ last'.op = "build_command") =>
           last'.out = Raise(Exc("RuntimeError", "binary_unresolved", NoInfo)) ]_vars

----------------------------------------------------------------------------
(* Properties of the subprocess runs of one execution *)

\* a subprocess run that is a version query
IsVersionQuery(run) == Len(run.argv) = 2 /\ run.argv[2] = "--version"

\* a subprocess run of a built command
IsCommandRun(run) == Len(run.argv) > 2 /\ run.argv[2] = "exec"

\* the first subprocess run of the latest call is a version query and no
\* later one is
VersionQueryOnceFirst ==
  /\ last.runs # <<>>
  /\ \A i \in 1..Len(last.runs) : IsVersionQuery(last.runs[i]) <=> i = 1

\* the command is spawned at most once, after a version query of the same
\* call that exited 0, and a call that succeeds made exactly the two runs
CommandOnceAfterVersionQuery ==
  /\ Len(last.runs) <= 2
  /\ \A i \in 1..Len(last.runs) :
       IsCommandRun(last.runs[i]) =>
         /\ i = 2
         /\ last.runs[1].outcome.t = "exit"
         /\ last.runs[1].outcome.returncode = 0
  /\ last.out.t = "return" =>
       /\ Len(last.runs) = 2
       /\ IsCommandRun(last.runs[2])

\* C22: every execute_command call first runs the version query exactly
\* once and spawns the command only if that query exited 0 in the same call;
\* the command is spawned at most once per call, and a fully successful call
\* makes exactly two subprocess runs, the version query and then the command.
C22_VersionQueryEveryCall ==
  last.op = "execute_command" =>
    /\ VersionQueryOnceFirst
    /\ CommandOnceAfterVersionQuery

\* C22 as amended: the version query is run exactly once, and first, by
\* every execute_command call on an executor whose binary is resolved when
\* validation ends; a call that cannot resolve a binary makes no subprocess run.
C22_VersionQueryEveryResolvedCall ==
  last.op = "execute_command" =>
    /\ Truthy(self.apptainer_path) => VersionQueryOnceFirst
    /\ ~Truthy(self.apptainer_path) => last.runs = <<>>
    /\ CommandOnceAfterVersionQuery

\* the second call on the executor is an execute_command that looked no
\* binary up, the executor having been resolved by the first call, and that
\* ran the version query and then the command
C22_Witness ==
  /\ calls = 2
  /\ last.op = "execute_command"
  /\ last.lookups = <<>>
  /\ last.out.t = "return"
  /\ Len(last.runs) = 2
  /\ IsVersionQuery(last.runs[1])
  /\ IsCommandRun(last.runs[2])

----------------------------------------------------------------------------
(* Every operation of one executor: the coordinator's methods and the sorters *)

NextOperations ==
  \/ Next
  \/ SortApptainerKwargs(ExecKwargs)
  \/ SortNgpbKwargs(ExecKwargs)

SpecOperations == Init /\ [][NextOperations]_vars

----------------------------------------------------------------------------
(* Properties of the executor's attributes *)

\* the attributes of the executor s other than apptainer_path
Configuration(s) ==
  [sif_path |-> s.sif_path, n_proc |-> s.n_proc, workdir |-> s.workdir,
   env |-> s.env, timeout |-> s.timeout, log_copy_dir |-> s.log_copy_dir,
   logger |-> s.logger]

\* C23: no operation of the executor, succeeding or failing, changes
\* sif_path, n_proc, workdir, env, timeout or log_copy_dir: apptainer_path is
\* the only attribute an operation may change, and the two sorters and
\* build_command change no attribute at all.
C23_ConfigurationFixed ==
  [][ /\ Configuration(self') = Configuration(self)
      /\ last'.op \in {"sort_apptainer_kwargs", "sort_ngpb_kwargs", "build_command"} =>
           self' = self ]_vars

\* a sorter was called on an executor whose binary an earlier call resolved
C23_Witness ==
  /\ calls = 2
  /\ last.op \in {"sort_apptainer_kwargs", "sort_ngpb_kwargs"}
  /\ last.input # <<>>
  /\ Truthy(self.apptainer_path)

----------------------------------------------------------------------------
(* Argument routing of one execution: the sorters and execute_command
   applied to one keyword mapping *)

\* option names handed to execute_command: exact and prefixed names of both
\* allow-lists, prefixed names with an unknown candidate, a name of neither
\* namespace
RoutingNames ==
  {"bind", "prmfile", "apptainer_cleanenv", "ngpb_pqrfile", "apptainer_invalid",
   "ngpb_invalid", "invalid_arg"}

\* option values handed to execute_command: absent and the empty string
RoutingValues == {None, Some("")}

RoutingKwargs == DictsOver(RoutingNames, RoutingValues, MaxKw)

\* an executor whose binary has been resolved
RoutingExecutor ==
  [Executor("/img/ngpb.sif", 1, "/work", <<>>, None, None)
     EXCEPT !.apptainer_path = Some(APPTAINER_BIN)]

InitRouting ==
  /\ self = RoutingExecutor
  /\ fs = EmptyFs
  /\ environ = OS_ENVIRON
  /\ last \in {Pending(kwargs) : kwargs \in RoutingKwargs}
  /\ calls = 0
  /\ logging = ConfiguredLogging

NextRouting ==
  \/ SortApptainerKwargs(PendingInput)
  \/ SortNgpbKwargs(PendingInput)
  \/ ExecuteCommand(PendingInput)

SpecRouting == InitRouting /\ [][NextRouting]_vars

----------------------------------------------------------------------------
(* Properties of the routed command *)

\* C24: for every input mapping given to execute_command, values being any
\* primitive, the empty string included, the command vector built from the
\* classified mappings contains no empty-string token.
C24_NoEmptyToken ==
  Spawned => \A i \in 1..Len(Command.argv) : Command.argv[i] # ""

----------------------------------------------------------------------------
(* Properties of failure reporting *)

\* the error diagnostics of the latest call that report its failure: those
\* about a log file that could not be written report no failure of the call
FailureDiags ==
  {i \in 1..Len(last.diags) :
     /\ last.diags[i].level = "error"
     /\ last.diags[i].msg \notin {"logging_error", "warnings_log_write_failed"}}

\* the version query of the latest call exited with a non-zero status
VersionQueryFailed ==
  /\ last.op \in {"validate_apptainer_availability", "execute_command"}
  /\ last.runs # <<>>
  /\ last.runs[1].outcome.t = "exit"
  /\ last.runs[1].outcome.returncode # 0

\* the command spawned by the latest call exited with a non-zero status
CommandFailed ==
  /\ Spawned
  /\ Command.outcome.t = "exit"
  /\ Command.outcome.returncode # 0

\* C25: a failing call is reported under exactly one failure category: a
\* non-zero exit of the spawned command reaches the caller as the
\* execution-failed error, a non-zero exit of the version query as the
\* non-functional error, neither re-wrapped as a generic failure, and in
\* each case exactly one error diagnostic is emitted for the failure.
C25_OneFailureCategory ==
  /\ CommandFailed =>
       /\ last.out.t = "raise"
       /\ last.out.exc.kind = "execution_failed"
       /\ Cardinality(FailureDiags) = 1
  /\ VersionQueryFailed =>
       /\ last.out.t = "raise"
       /\ last.out.exc.kind = "not_functional"
       /\ Cardinality(FailureDiags) = 1

----------------------------------------------------------------------------
(* Properties of the execution log across calls *)

\* the latest call spawned the command and the command ran to completion
Completed == Spawned /\ Command.outcome.t = "exit"

\* the record of a completed command as the log holds it
RecordOf(run) ==
  [command |-> join(run.argv, 1), returncode |-> run.outcome.returncode,
   stdout |-> run.outcome.stdout, stderr |-> run.outcome.stderr]

\* C26: with log writes succeeding, the primary execution log, whenever it
\* exists, is the record of the most recent call that spawned the command: a
\* call that completes overwrites the previous record, a call that spawns
\* nothing leaves the log as it was, and after a call whose command timed
\* out or failed at spawn no log of an earlier call is left to report a
\* return code.
C26_LogIsLatestRecord ==
  [][ /\ (Completed' /\ ~Emitted(last'.diags, LoggingError(PrimaryLog'))) =>
           fs'.primary = Some(RecordOf(Command'))
      /\ (Spawned' /\ ~Completed') => fs'.primary = None
      /\ ~Spawned' => fs'.primary = fs.primary ]_vars

----------------------------------------------------------------------------
(* Properties of the accounting of supplied names *)

\* what the runtime sorter and the program sorter return for the input of
\* the latest call
RuntimeResult ==
  IF last.op = "sort_apptainer_kwargs"
  THEN last.out.value ELSE sort_apptainer_kwargs(last.input)

ProgramResult ==
  IF last.op = "sort_ngpb_kwargs"
  THEN last.out.value ELSE sort_ngpb_kwargs(last.input)

\* the supplied name produces a key of the mapping: the name itself, or what
\* is left of it without the prefix it starts with
ProducesKey(name, prefix, mapping) ==
  \E k \in Keys(mapping) :
    k = name \/ (startswith(name, prefix) /\ replace(name, prefix) = k)

\* how many times the list holds the name
Occurrences(list, name) == Cardinality({i \in 1..Len(list) : list[i] = name})

\* in how many of the four outputs of the two sorters the name is accounted for
Accounted(name) ==
  (IF ProducesKey(name, APPTAINER_PREFIX, RuntimeResult.args) THEN 1 ELSE 0)
  + (IF ProducesKey(name, NGPB_PREFIX, ProgramResult.args) THEN 1 ELSE 0)
  + Occurrences(RuntimeResult.unknown, name)
  + Occurrences(ProgramResult.unknown, name)

\* the position of the image in the spawned command: runtime options come
\* before it, program options after it
ImageAt == CHOOSE i \in 1..Len(Command.argv) : Command.argv[i] = PathAbsolute(self.sif_path)

\* the option name of a token of the form --name
OptionName(token) == SubSeq(token, 3, Len(token))

\* C27: each supplied name is accounted for exactly once across the four
\* outputs of the two sorters, as a key of the runtime mapping, a key of the
\* program mapping, an entry of the runtime unrecognized list or an entry of
\* the program unrecognized list; every key of either mapping is in the
\* corresponding allow-list, and no flag outside the allow-lists is in the
\* command execute_command spawns.
C27_NamesAccountedOnce ==
  /\ last.op \in {"sort_apptainer_kwargs", "sort_ngpb_kwargs", "execute_command"} =>
       /\ \A i \in 1..Len(last.input) : Accounted(last.input[i].key) = 1
       /\ Keys(RuntimeResult.args) \subseteq APPTAINER_KNOWN_ARGS
       /\ Keys(ProgramResult.args) \subseteq NGPB_KNOWN_ARGS
  /\ Spawned =>
       \A i \in 1..Len(Command.argv) :
         startswith(Command.argv[i], "--") =>
           /\ i < ImageAt => OptionName(Command.argv[i]) \in APPTAINER_KNOWN_ARGS
           /\ i > ImageAt => OptionName(Command.argv[i]) \in NGPB_KNOWN_ARGS

\* execute_command spawned a command for a mapping holding a prefixed
\* program option and a prefixed name with an unknown runtime candidate
C27_Witness ==
  /\ Spawned
  /\ Keys(last.input) = {"apptainer_invalid", "ngpb_pqrfile"}
  /\ Keys(ProgramResult.args) = {"pqrfile"}
  /\ RuntimeResult.unknown = <<"apptainer_invalid">>
  /\ \E i \in 1..Len(Command.argv) : Command.argv[i] = "--pqrfile"

====
